---------------------------- MODULE Spec2Model ----------------------------
(***************************************************************************)
(* Model of SIPPM.py, the screening tool for societal impact in Pure press *)
(* mentions: the paginated, retrying fetch get_clippings, the keyword      *)
(* matcher match_impact_keywords, the scoring block that runs when the     *)
(* Search button is pressed, and the session result store                  *)
(* st.session_state.clipping_results.                                      *)
(*                                                                         *)
(* Strings are sequences of one-character strings.  A creation date is the *)
(* 10-character ISO prefix of createdDate; ISO dates compare as strings    *)
(* the way their day numbers compare, so a date is a day number and 0 is   *)
(* the empty string of an item without createdDate.                        *)
(***************************************************************************)
EXTENDS Integers, Sequences, FiniteSets, TLC

\* ------------------------------------------------------------------ bounds
MaxPages == 2       \* pages of the provider's collection that hold items
MaxPageLen == 2     \* items a served page carries in the model
MaxClips == 2       \* clippings handed to the scoring block in SpecScore
MaxKeywords == 2    \* phrases in impact_keywords in SpecScore

\* ------------------------------------------------------- program constants
size == 100
max_retries == 3

\* ----------------------------------------------------------------- strings
WordChars == {"a", "A", "b"}

Lower(c) == IF c = "A" THEN "a" ELSE c

LowerStr(s) == [k \in 1..Len(s) |-> Lower(s[k])]

\* \w at position p of text (positions outside the text are not word characters)
IsWordAt(text, p) == p >= 1 /\ p <= Len(text) /\ text[p] \in WordChars

\* \b between positions p and p+1 of text
Boundary(text, p) == IsWordAt(text, p) # IsWordAt(text, p + 1)

\* re.search(rf"\b{re.escape(word)}\b", text, re.IGNORECASE)
re_search(word, text) ==
    \E s \in 0..(Len(text) - Len(word)) :
        /\ Boundary(text, s)
        /\ \A k \in 1..Len(word) : Lower(text[s + k]) = Lower(word[k])
        /\ Boundary(text, s + Len(word))

RECURSIVE match_impact_keywords(_, _)
match_impact_keywords(text, keywords) ==
    IF keywords = <<>> THEN <<>>
    ELSE LET word == Head(keywords)
             rest == match_impact_keywords(text, Tail(keywords))
         IN  IF re_search(word, text) THEN <<word>> \o rest ELSE rest

\* sep.join(parts)
RECURSIVE Join(_, _)
Join(parts, sep) ==
    IF parts = <<>> THEN <<>>
    ELSE IF Len(parts) = 1 THEN parts[1]
    ELSE parts[1] \o sep \o Join(Tail(parts), sep)

\* str.strip()
RECURSIVE Strip(_)
Strip(s) ==
    IF s = <<>> THEN s
    ELSE IF s[1] = " " THEN Strip(Tail(s))
    ELSE IF s[Len(s)] = " " THEN Strip(SubSeq(s, 1, Len(s) - 1))
    ELSE s

\* sub in text
IsSubstring(sub, text) ==
    \E s \in 0..(Len(text) - Len(sub)) : SubSeq(text, s + 1, s + Len(sub)) = sub

\* the code point order of the characters of the model
CharRank(c) ==
    CASE c = " " -> 32 [] c = "," -> 44 [] c = "A" -> 65 [] c = "a" -> 97
      [] c = "b" -> 98 [] OTHER -> 127

\* s < t for strings
RECURSIVE StrLess(_, _)
StrLess(s, t) ==
    IF t = <<>> THEN FALSE
    ELSE IF s = <<>> THEN TRUE
    ELSE IF CharRank(Head(s)) # CharRank(Head(t))
         THEN CharRank(Head(s)) < CharRank(Head(t))
         ELSE StrLess(Tail(s), Tail(t))

\* --------------------------------------------------------------- the clips
\* Fields of a press-media item that the program reads.  title is the list of
\* values of title.text[]; descriptions is the list of the (locale, value)
\* text entries of descriptions[].value.text[], HTML already removed;
\* references holds, per reference, whether it carries a pureId.
Clip(u, d, t, ds, rp, ro, refs) ==
    [uuid |-> u, createdDate |-> d, title |-> t, descriptions |-> ds,
     relatedProjects |-> rp, relatedResearchOutputs |-> ro, references |-> refs]

DaText(v) == [locale |-> "da_DK", value |-> v]
EnText(v) == [locale |-> "en_GB", value |-> v]

CreatedDates == {0, 1, 2, 3}   \* 0: the item has no createdDate
StartDates == {2, 3}           \* the date picked in the form

KeywordPool == {<<"a">>, <<"a", " ", "b">>}

KeywordLists == UNION {[1..n -> KeywordPool] : n \in 0..MaxKeywords}

\* the keyword lists entered in the form of a session
FormKeywordLists == {<<>>, << <<"a">> >>, << <<"a", " ", "b">> >>}

\* The provider is asked for order=created, orderBy=descending: the items it
\* serves in one search never increase in creation date.  It puts nothing on
\* a page beyond the last page of its collection, and otherwise up to
\* MaxPageLen items.
ProviderClip(d) ==
    Clip("u", d, << <<"A">> >>, <<DaText(<<"b">>)>>, <<>>, <<>>, <<TRUE, FALSE>>)

Descending(dates) == \A k \in 1..(Len(dates) - 1) : dates[k] >= dates[k + 1]

ProviderPages(off, sent) ==
    IF off >= MaxPages * size THEN {<<>>}
    ELSE UNION {{[k \in 1..n |-> ProviderClip(f[k])] :
                    f \in {g \in [1..n -> CreatedDates] :
                              Descending([k \in 1..Len(sent) |-> sent[k].createdDate] \o g)}}
                : n \in 0..MaxPageLen}

\* Statuses other than 200 and 500 that the provider may answer with
ErrorStatuses == {401, 404, 503}

\* -------------------------------------------------------------- the state
VARIABLES
    pc,                \* "idle", "request" (top of the retry loop), "score",
                       \* "display" (the result block of a search run)
    start_date,        \* start_date.strftime("%Y-%m-%d")
    impact_keywords,   \* file_keywords + extra_keywords
    offset, attempt, results,       \* locals of get_clippings
    response,          \* the last answer of requests.get in this search
    page_requests,     \* requests issued for the page at offset
    served,            \* items of the 200 pages served in this search
    all_ok,            \* every answer of this search so far had status 200
    stop,              \* which return of get_clippings was taken
    clippings,         \* what get_clippings returned
    clip_i, export_data,            \* the scoring loop
    clipping_results,  \* st.session_state.clipping_results
    previous_results,  \* the store as it was when the last search started
    filtered_data,     \* the list the result block of the last run displayed
    last_run           \* the last script run: "none", "search", "rerun", "no_key"

vars == <<pc, start_date, impact_keywords, offset, attempt, results,
          response, page_requests, served, all_ok, stop, clippings, clip_i,
          export_data, clipping_results, previous_results, filtered_data,
          last_run>>

NoResponse == [kind |-> "none", status |-> 0, has_items |-> FALSE, items |-> <<>>]
Raised == [kind |-> "exception", status |-> 0, has_items |-> FALSE, items |-> <<>>]
Http(s) == [kind |-> "http", status |-> s, has_items |-> FALSE, items |-> <<>>]
Http200(has, its) == [kind |-> "http", status |-> 200, has_items |-> has, items |-> its]

Init ==
    /\ pc = "idle"
    /\ start_date = 3
    /\ impact_keywords = <<>>
    /\ offset = 0
    /\ attempt = 0
    /\ results = <<>>
    /\ response = NoResponse
    /\ page_requests = 0
    /\ served = <<>>
    /\ all_ok = TRUE
    /\ stop = "none"
    /\ clippings = <<>>
    /\ clip_i = 1
    /\ export_data = <<>>
    /\ clipping_results = <<>>
    /\ previous_results = <<>>
    /\ filtered_data = <<>>
    /\ last_run = "none"

\* ---------------------------------------------------------- get_clippings
InRange_Strict(created_date, sd) == created_date > sd

\* created_date >= start_date
InRange(created_date, sd) == created_date >= sd

\* the for loop over the items of a page: in-range items are appended, the
\* first out-of-range item returns
RECURSIVE ScanItems(_, _, _)
ScanItems(items, res, sd) ==
    IF items = <<>> THEN [results |-> res, cut |-> FALSE]
    ELSE IF InRange(Head(items).createdDate, sd)
         THEN ScanItems(Tail(items), Append(res, Head(items)), sd)
         ELSE [results |-> res, cut |-> TRUE]

HasNextAttempt_OneMore(att) == att < max_retries

HasNextAttempt_Never(att) == FALSE

\* for attempt in range(max_retries): is there another attempt after this one
HasNextAttempt(att) == att + 1 < max_retries

OnExhausted_Empty(res) == <<>>

\* the value returned when the retry loop runs out
OnExhausted(res) == res

OnNetworkError_Empty(res) == <<>>

\* the value returned when requests.get raises
OnNetworkError(res) == res

OnStatus_Keep401(s, res) == IF s = 401 THEN res ELSE <<>>

OnStatus_KeepOther(s, res) == IF s = 401 THEN <<>> ELSE res

\* the value returned by the status checks after the retry loop
OnStatus(s, res) ==
    IF s = 401 THEN <<>>
    ELSE IF s = 500 THEN res
    ELSE <<>>

OnEmptyPage_Empty(res) == <<>>

\* the value returned after the loop is left on an empty page
OnEmptyPage(res) == res

NextOffset_Stay(off) == off

NextOffset_Skip(off) == off + 2 * size

\* offset += size
NextOffset(off) == off + size

\* data.get("items", [])
ItemsOf(has, its) == IF has THEN its ELSE <<>>

Return(value, why) ==
    /\ clippings' = value
    /\ stop' = why
    /\ pc' = "score"
    /\ clip_i' = 1
    /\ export_data' = <<>>

\* the end of a script run: the locals of the run are gone
EndOfRun ==
    /\ start_date' = 3
    /\ impact_keywords' = <<>>
    /\ offset' = 0
    /\ attempt' = 0
    /\ results' = <<>>
    /\ page_requests' = 0
    /\ served' = <<>>
    /\ all_ok' = TRUE
    /\ clippings' = <<>>
    /\ clip_i' = 1
    /\ export_data' = <<>>
    /\ pc' = "idle"

\* The Search button with an API key: the script reaches get_clippings.
RunAnalysis ==
    /\ pc = "idle"
    /\ \E sd \in StartDates : start_date' = sd
    /\ \E kws \in FormKeywordLists : impact_keywords' = kws
    /\ offset' = 0
    /\ attempt' = 0
    /\ results' = <<>>
    /\ response' = NoResponse
    /\ page_requests' = 0
    /\ served' = <<>>
    /\ all_ok' = TRUE
    /\ stop' = "none"
    /\ clippings' = <<>>
    /\ clip_i' = 1
    /\ export_data' = <<>>
    /\ pc' = "request"
    /\ previous_results' = clipping_results
    /\ filtered_data' = <<>>
    /\ last_run' = "search"
    /\ UNCHANGED clipping_results

\* requests.get raises a RequestException
NetworkError ==
    /\ pc = "request"
    /\ response' = Raised
    /\ all_ok' = FALSE
    /\ page_requests' = page_requests + 1
    /\ Return(OnNetworkError(results), "network")
    /\ UNCHANGED <<start_date, impact_keywords, offset, attempt,
                   results, served, clipping_results, previous_results,
                   filtered_data, last_run>>

\* status 500: sleep and try the same page again, or give up
ServerError ==
    /\ pc = "request"
    /\ response' = Http(500)
    /\ all_ok' = FALSE
    /\ page_requests' = page_requests + 1
    /\ IF HasNextAttempt(attempt)
       THEN /\ attempt' = attempt + 1
            /\ UNCHANGED <<pc, stop, clippings, clip_i, export_data>>
       ELSE /\ Return(OnExhausted(results), "exhausted")
            /\ UNCHANGED attempt
    /\ UNCHANGED <<start_date, impact_keywords, offset, results,
                   served, clipping_results, previous_results,
                   filtered_data, last_run>>

\* any other status than 200 and 500 leaves the retry loop
ErrorStatus ==
    /\ pc = "request"
    /\ \E s \in ErrorStatuses :
          /\ response' = Http(s)
          /\ Return(OnStatus(s, results),
                    IF s = 401 THEN "unauthorized" ELSE "api_error")
    /\ all_ok' = FALSE
    /\ page_requests' = page_requests + 1
    /\ UNCHANGED <<start_date, impact_keywords, offset, attempt,
                   results, served, clipping_results, previous_results,
                   filtered_data, last_run>>

\* status 200 with a JSON object as body
Page ==
    /\ pc = "request"
    /\ \E has \in BOOLEAN :
       \E its \in (IF has THEN ProviderPages(offset, served) ELSE {<<>>}) :
          LET items == ItemsOf(has, its)
              scan == ScanItems(items, results, start_date)
          IN  /\ response' = Http200(has, its)
              /\ served' = served \o items
              /\ IF items = <<>>
                 THEN /\ Return(OnEmptyPage(results), "empty")
                      /\ page_requests' = page_requests + 1
                      /\ UNCHANGED <<offset, attempt, results>>
                 ELSE /\ results' = scan.results
                      /\ IF scan.cut
                         THEN /\ Return(scan.results, "cutoff")
                              /\ page_requests' = page_requests + 1
                              /\ UNCHANGED <<offset, attempt>>
                         ELSE /\ offset' = NextOffset(offset)
                              /\ attempt' = 0
                              /\ page_requests' = 0
                              /\ UNCHANGED <<pc, stop, clippings, clip_i, export_data>>
    /\ UNCHANGED <<start_date, impact_keywords, all_ok, clipping_results,
                   previous_results, filtered_data, last_run>>

\* status 200 with a body that is no JSON object with a list of items whose
\* createdDate is a string: response.json() or the item loop raises outside
\* the try block, and the script run ends before the store is assigned
MalformedBody ==
    /\ pc = "request"
    /\ response' = [kind |-> "malformed", status |-> 200, has_items |-> FALSE,
                    items |-> <<>>]
    /\ stop' = "unhandled"
    /\ EndOfRun
    /\ UNCHANGED <<clipping_results, previous_results, filtered_data, last_run>>

\* ------------------------------------------------------- the scoring block
\* field.get("text", [{}])[0].get("value", "") if field else ""
extract_text_from_field(field) == IF field = <<>> THEN <<>> ELSE field[1]

\* the first da_DK text, up to the Infomedia marker, stripped
RECURSIVE extract_description(_)
extract_description(descriptions) ==
    IF descriptions = <<>> THEN <<>>
    ELSE IF Head(descriptions).locale = "da_DK"
         THEN Strip(Head(descriptions).value)
         ELSE extract_description(Tail(descriptions))

\* f"{title} {description}"
TitleAndDescription(title, description) == title \o <<" ">> \o description

Score_Combined(title, description, related_projects, related_outputs, keywords) ==
    (IF match_impact_keywords(TitleAndDescription(title, description), keywords) # <<>>
     THEN 1 ELSE 0)
    + (IF match_impact_keywords(description, keywords) # <<>> THEN 1 ELSE 0)
    + (IF related_projects # <<>> \/ related_outputs # <<>> THEN 1 ELSE 0)

\* the three increments of score
Score(title, description, related_projects, related_outputs, keywords) ==
    (IF match_impact_keywords(title, keywords) # <<>> THEN 1 ELSE 0)
    + (IF match_impact_keywords(description, keywords) # <<>> THEN 1 ELSE 0)
    + (IF related_projects # <<>> \/ related_outputs # <<>> THEN 1 ELSE 0)

\* sum(1 for ref in references if ref.get("pureId"))
reference_count(references) == Len(SelectSeq(references, LAMBDA r : r))

\* the markdown links of the related projects or publications, before the join
Links(kind, related) == [k \in 1..Len(related) |-> <<kind, related[k]>>]

\* the row appended to export_data
Row(clip, title, description, keyword_matches, keywords) ==
    [UUID |-> clip.uuid,
     Title |-> title,
     URL |-> <<"clippings", clip.uuid>>,
     Keywords_found |-> Join(keyword_matches, <<",", " ">>),
     Description |-> description,
     Impact_score |-> Score(title, description, clip.relatedProjects,
                            clip.relatedResearchOutputs, keywords),
     Reference_count |-> reference_count(clip.references),
     Projects |-> Links("projects", clip.relatedProjects),
     Publications |-> Links("publications", clip.relatedResearchOutputs)]

ScoreClip_WritesThrough ==
    /\ pc = "score"
    /\ clip_i <= Len(clippings)
    /\ LET clip == clippings[clip_i]
           title == extract_text_from_field(clip.title)
           description == extract_description(clip.descriptions)
           keyword_matches ==
               match_impact_keywords(TitleAndDescription(title, description),
                                     impact_keywords)
       IN  export_data' =
               IF keyword_matches = <<>> THEN export_data
               ELSE Append(export_data,
                           Row(clip, title, description, keyword_matches,
                               impact_keywords))
    /\ clipping_results' = export_data'
    /\ clip_i' = clip_i + 1
    /\ UNCHANGED <<pc, start_date, impact_keywords, offset, attempt,
                   results, response, page_requests, served, all_ok, stop,
                   clippings, previous_results, filtered_data, last_run>>

\* one pass of "for clip in clippings"
ScoreClip ==
    /\ pc = "score"
    /\ clip_i <= Len(clippings)
    /\ LET clip == clippings[clip_i]
           title == extract_text_from_field(clip.title)
           description == extract_description(clip.descriptions)
           keyword_matches ==
               match_impact_keywords(TitleAndDescription(title, description),
                                     impact_keywords)
       IN  export_data' =
               IF keyword_matches = <<>> THEN export_data
               ELSE Append(export_data,
                           Row(clip, title, description, keyword_matches,
                               impact_keywords))
    /\ clip_i' = clip_i + 1
    /\ UNCHANGED <<pc, start_date, impact_keywords, offset, attempt,
                   results, response, page_requests, served, all_ok, stop,
                   clippings,
                   clipping_results, previous_results, filtered_data, last_run>>

\* st.session_state.clipping_results = export_data
StoreResults ==
    /\ pc = "score"
    /\ clip_i > Len(clippings)
    /\ clipping_results' = export_data
    /\ pc' = "display"
    /\ UNCHANGED <<start_date, impact_keywords, offset, attempt,
                   results, response, page_requests, served, all_ok, stop,
                   clippings,
                   clip_i, export_data, previous_results, filtered_data,
                   last_run>>

\* ------------------------------------------------------- the result block
\* what can be typed into the keyword filter box
KeywordInputs == {<<>>, <<"b">>, <<" ", "A">>}

SortModes == {"Impact score (desc)", "Reference count (desc)", "Title (A-Z)"}

\* st.text_input(...).strip().lower()
KeywordFilter(raw) == LowerStr(Strip(raw))

ItemPasses_Either(item, only_with_projects, only_with_publications, keyword_filter) ==
    /\ \/ ~(only_with_projects /\ item.Projects = <<>>)
       \/ ~(only_with_publications /\ item.Publications = <<>>)
    /\ ~(keyword_filter # <<>>
          /\ ~IsSubstring(keyword_filter, LowerStr(item.Keywords_found)))

\* the three "continue" tests of the filter loop: TRUE when the item is kept
ItemPasses(item, only_with_projects, only_with_publications, keyword_filter) ==
    /\ ~(only_with_projects /\ item.Projects = <<>>)
    /\ ~(only_with_publications /\ item.Publications = <<>>)
    /\ ~(keyword_filter # <<>>
          /\ ~IsSubstring(keyword_filter, LowerStr(item.Keywords_found)))

\* the filter loop
Filter(data, only_with_projects, only_with_publications, keyword_filter) ==
    SelectSeq(data, LAMBDA item :
        ItemPasses(item, only_with_projects, only_with_publications,
                   keyword_filter))

\* the sort key puts x strictly before y
Before(x, y, sort_by) ==
    CASE sort_by = "Impact score (desc)" -> x.Impact_score > y.Impact_score
      [] sort_by = "Reference count (desc)" -> x.Reference_count > y.Reference_count
      [] OTHER -> StrLess(LowerStr(x.Title), LowerStr(y.Title))

RECURSIVE InsertSorted(_, _, _)
InsertSorted(sorted, x, sort_by) ==
    IF sorted = <<>> THEN <<x>>
    ELSE IF Before(x, Head(sorted), sort_by) THEN <<x>> \o sorted
    ELSE <<Head(sorted)>> \o InsertSorted(Tail(sorted), x, sort_by)

\* list.sort(key=..., reverse=...): stable, equal keys keep their order
RECURSIVE Sorted(_, _)
Sorted(data, sort_by) ==
    IF data = <<>> THEN <<>>
    ELSE InsertSorted(Sorted(SubSeq(data, 1, Len(data) - 1), sort_by),
                      data[Len(data)], sort_by)

\* the lists the filter loop can build from the store, over the settings of
\* the two checkboxes and of the keyword box
FilteredLists(store) ==
    {Filter(store, only_with_projects, only_with_publications, KeywordFilter(raw)) :
        only_with_projects \in BOOLEAN, only_with_publications \in BOOLEAN,
        raw \in KeywordInputs}

\* "if st.session_state.clipping_results:" guards the filter loop and the
\* sort; filtered_data is the list the block displays
DisplayResults ==
    filtered_data' \in
        IF clipping_results = <<>> THEN {<<>>}
        ELSE {Sorted(data, sort_by) :
                 data \in FilteredLists(clipping_results), sort_by \in SortModes}

\* the result block at the end of a search run
ShowResults ==
    /\ pc = "display"
    /\ DisplayResults
    /\ response' = NoResponse
    /\ stop' = "none"
    /\ EndOfRun
    /\ UNCHANGED <<clipping_results, previous_results, last_run>>

Rerun_SortsStore ==
    /\ pc = "idle"
    /\ clipping_results # <<>>
    /\ DisplayResults
    /\ clipping_results' = filtered_data'
    /\ last_run' = "rerun"
    /\ UNCHANGED <<pc, start_date, impact_keywords, offset, attempt,
                   results, response, page_requests, served, all_ok, stop,
                   clippings, clip_i, export_data, previous_results>>

\* a widget of the result block is changed: the script runs again with
\* run_analysis False
Rerun ==
    /\ pc = "idle"
    /\ clipping_results # <<>>
    /\ DisplayResults
    /\ last_run' = "rerun"
    /\ UNCHANGED <<pc, start_date, impact_keywords, offset, attempt,
                   results, response, page_requests, served, all_ok, stop,
                   clippings, clip_i, export_data, clipping_results,
                   previous_results>>

RunWithoutKey_Clears ==
    /\ pc = "idle"
    /\ clipping_results' = <<>>
    /\ filtered_data' = <<>>
    /\ last_run' = "no_key"
    /\ UNCHANGED <<pc, start_date, impact_keywords, offset, attempt,
                   results, response, page_requests, served, all_ok, stop,
                   clippings, clip_i, export_data, previous_results>>

\* the Search button with an empty API key: the run_analysis block is skipped
RunWithoutKey ==
    /\ pc = "idle"
    /\ DisplayResults
    /\ last_run' = "no_key"
    /\ UNCHANGED <<pc, start_date, impact_keywords, offset, attempt,
                   results, response, page_requests, served, all_ok, stop,
                   clippings, clip_i, export_data, clipping_results,
                   previous_results>>

\* ------------------------------------------------------ the specifications
Next ==
    \/ RunAnalysis
    \/ NetworkError
    \/ ServerError
    \/ ErrorStatus
    \/ Page
    \/ MalformedBody
    \/ ScoreClip
    \/ StoreResults
    \/ ShowResults
    \/ Rerun
    \/ RunWithoutKey

Spec == Init /\ [][Next]_vars

\* The scoring block as a function of what get_clippings returned and of the
\* keyword list: the state when get_clippings has returned after one page of
\* in-range clippings and an empty page.
ScoreTitles == {<<>>, << <<"A">> >>, << <<"a", "b">> >>}

ScoreDescriptions ==
    {<<EnText(<<"a">>)>>, <<DaText(<<"b">>)>>, <<DaText(<<"a", " ">>)>>}

ScoreRelations == {<< <<>>, <<>> >>, << <<"p">>, <<>> >>, << <<>>, <<"o">> >>}

\* the k-th clipping of a returned list, with its own uuid
ScoreClip_k(k, t, d, r) == Clip(k, 3, t, d, r[1], r[2], <<TRUE, FALSE>>)

ScoreClippings(n) ==
    {[k \in 1..n |-> ScoreClip_k(k, f[k][1], f[k][2], f[k][3])] :
        f \in [1..n -> ScoreTitles \X ScoreDescriptions \X ScoreRelations]}

InitScore ==
    /\ pc = "score"
    /\ start_date = 2
    /\ impact_keywords \in KeywordLists
    /\ \E n \in 0..MaxClips : clippings \in ScoreClippings(n)
    /\ results = clippings
    /\ served = clippings
    /\ offset = (IF clippings = <<>> THEN 0 ELSE size)
    /\ attempt = 0
    /\ response = Http200(TRUE, <<>>)
    /\ page_requests = 1
    /\ all_ok = TRUE
    /\ stop = "empty"
    /\ clip_i = 1
    /\ export_data = <<>>
    /\ clipping_results = <<>>
    /\ previous_results = <<>>
    /\ filtered_data = <<>>
    /\ last_run = "search"

NextScore ==
    \/ ScoreClip
    \/ StoreResults

SpecScore == InitScore /\ [][NextScore]_vars

\* The scoring block followed by the result block and its reruns.
NextView ==
    \/ ScoreClip
    \/ StoreResults
    \/ ShowResults
    \/ Rerun
    \/ RunWithoutKey

\* the clippings the result block is studied on: every description is a
\* da_DK text
ViewDescriptions == {<<DaText(<<"b">>)>>, <<DaText(<<"a", " ">>)>>}

ViewClippings(n) ==
    {[k \in 1..n |-> ScoreClip_k(k, f[k][1], f[k][2], f[k][3])] :
        f \in [1..n -> ScoreTitles \X ViewDescriptions \X ScoreRelations]}

InitView ==
    /\ pc = "score"
    /\ start_date = 2
    /\ impact_keywords \in KeywordLists
    /\ \E n \in 0..MaxClips : clippings \in ViewClippings(n)
    /\ results = clippings
    /\ served = clippings
    /\ offset = (IF clippings = <<>> THEN 0 ELSE size)
    /\ attempt = 0
    /\ response = Http200(TRUE, <<>>)
    /\ page_requests = 1
    /\ all_ok = TRUE
    /\ stop = "empty"
    /\ clip_i = 1
    /\ export_data = <<>>
    /\ clipping_results = <<>>
    /\ previous_results = <<>>
    /\ filtered_data = <<>>
    /\ last_run = "search"

SpecView == InitView /\ [][NextView]_vars

\* ------------------------------------------------------------- the claims
Dates(items) == [k \in 1..Len(items) |-> items[k].createdDate]

Returned == stop \notin {"none", "unhandled"}

IsHttp(s) == response.kind = "http" /\ response.status = s

ServerSide5xx == 500..599

\* C1: when every request of a search was answered with status 200 and the
\* fetch has returned, the returned clippings are exactly the served items with
\* creation date >= start_date, as a prefix of what was served and in the
\* order served; and once a served page holds an item earlier than
\* start_date no further request is pending.
C1_PaginationCutoff ==
    /\ (all_ok /\ Returned) =>
          /\ clippings = SelectSeq(served, LAMBDA c : c.createdDate >= start_date)
          /\ clippings = SubSeq(served, 1, Len(clippings))
          /\ stop \in {"cutoff", "empty"}
    /\ (all_ok /\ \E k \in 1..Len(served) : served[k].createdDate < start_date) =>
          /\ pc # "request"
          /\ stop = "cutoff"
          /\ served[Len(clippings) + 1].createdDate < start_date

C1_Witness ==
    /\ all_ok
    /\ stop = "cutoff"
    /\ offset = size
    /\ Len(clippings) >= 2
    /\ clippings[Len(clippings)].createdDate = start_date
    /\ Len(served) > Len(clippings)

C3_PartialOnExhaustion ==
    stop = "exhausted" =>
        /\ clippings = served
        /\ Len(clippings) = Len(results)
        /\ pc # "request"

C3_Witness ==
    /\ stop = "exhausted"
    /\ offset = size
    /\ Len(clippings) >= 1

\* C4 as claimed: every 5xx status is retried up to 3 attempts and, after
\* exhaustion, returns what was collected.
C4_Every5xxTransient ==
    (response.kind = "http" /\ response.status \in ServerSide5xx /\ Returned) =>
        /\ page_requests = 3
        /\ clippings = served

\* C4 as amended: status 500 is transient (the page is retried until 3
\* requests were made for it, then what was collected is returned); any other
\* 5xx status is not retried and returns the empty sequence.
C4_Status500Transient ==
    /\ IsHttp(500) =>
          IF Returned
          THEN stop = "exhausted" /\ page_requests = 3 /\ clippings = served
          ELSE pc = "request" /\ page_requests < 3 /\ page_requests = attempt
    /\ (response.kind = "http" /\ response.status \in ServerSide5xx \ {500}) =>
          /\ stop = "api_error"
          /\ page_requests = attempt + 1
          /\ clippings = <<>>

C4_Witness ==
    /\ IsHttp(500)
    /\ stop = "exhausted"
    /\ page_requests = 3
    /\ served # <<>>
    /\ clippings = served

\* C5: status 401, and any status that is neither 200 nor 401 nor 5xx, ends
\* the fetch with the empty sequence whatever was collected, and no request
\* follows.
C5_FatalStatusReturnsEmpty ==
    (response.kind = "http"
       /\ response.status \notin ({200} \cup ServerSide5xx)) =>
        /\ clippings = <<>>
        /\ pc # "request"
        /\ stop \in {"unauthorized", "api_error"}
        /\ stop = "unauthorized" <=> response.status = 401

C5_Witness ==
    /\ IsHttp(401)
    /\ results # <<>>
    /\ clippings = <<>>
    /\ pc = "score"

\* C6 as claimed: a non-retryable error status other than 401 returns what
\* was collected from the earlier pages.
C6_ErrorKeepsPartial ==
    (response.kind = "http" /\ response.status \notin {200, 401, 500} /\ Returned) =>
        clippings = results

\* C6 as amended: a non-retryable error status other than 401 returns the
\* empty sequence, and what was collected from the earlier pages is dropped.
C6_ErrorDropsPartial ==
    (response.kind = "http" /\ response.status \notin {200, 401, 500}) =>
        /\ Returned
        /\ stop = "api_error"
        /\ clippings = <<>>

C6_Witness ==
    /\ IsHttp(404)
    /\ stop = "api_error"
    /\ offset = size
    /\ results # <<>>
    /\ clippings = <<>>

\* C7: a network exception, on any page and any attempt, ends the fetch at
\* once: the failing request is the last one, and get_clippings returns
\* exactly the items collected before it.
C7_NetworkFailureNotRetried ==
    response.kind = "exception" =>
        /\ stop = "network"
        /\ pc # "request"
        /\ page_requests = attempt + 1
        /\ clippings = served
        /\ clippings = results

C7_Witness ==
    /\ response.kind = "exception"
    /\ attempt >= 1
    /\ offset = size
    /\ clippings # <<>>

\* C8: a 200 answer whose items are empty or absent ends the fetch with no
\* further request and returns every item of the earlier pages.
C8_EmptyPageTermination ==
    (IsHttp(200) /\ (~response.has_items \/ response.items = <<>>)) =>
        /\ stop = "empty"
        /\ pc # "request"
        /\ clippings = served
        /\ \A k \in 1..Len(clippings) : clippings[k].createdDate >= start_date

C8_Witness ==
    /\ IsHttp(200)
    /\ ~response.has_items
    /\ stop = "empty"
    /\ Len(clippings) >= 2
    /\ \A k \in 1..Len(clippings) : clippings[k].createdDate >= start_date

\* C9: every record of the session result store has matched keywords and an
\* impact score in {1, 2, 3}.
C9_StoredScoreAtLeastOne ==
    \A k \in 1..Len(clipping_results) :
        /\ clipping_results[k].Keywords_found # <<>>
        /\ clipping_results[k].Impact_score \in {1, 2, 3}

\* C10: the stored impact score is the sum of three bits: the title alone
\* matches a keyword, the description alone matches a keyword, the clipping
\* has a related project or a related publication.
TitleBit(row) == IF \E k \in 1..Len(impact_keywords) :
                        re_search(impact_keywords[k], row.Title) THEN 1 ELSE 0

DescriptionBit(row) == IF \E k \in 1..Len(impact_keywords) :
                              re_search(impact_keywords[k], row.Description) THEN 1 ELSE 0

RelationBit(row) == IF row.Projects # <<>> \/ row.Publications # <<>> THEN 1 ELSE 0

C10_ThreeBitScore ==
    \A k \in 1..Len(clipping_results) :
        LET row == clipping_results[k]
        IN  /\ row.Impact_score = TitleBit(row) + DescriptionBit(row) + RelationBit(row)
            /\ (TitleBit(row) = 1 /\ DescriptionBit(row) = 0 /\ RelationBit(row) = 0)
                  => row.Impact_score = 1
            /\ (TitleBit(row) = 1 /\ DescriptionBit(row) = 1 /\ RelationBit(row) = 0)
                  => row.Impact_score = 2
            /\ (TitleBit(row) = 1 /\ DescriptionBit(row) = 0 /\ row.Projects # <<>>)
                  => row.Impact_score = 2
            /\ (TitleBit(row) = 1 /\ DescriptionBit(row) = 1 /\ RelationBit(row) = 1)
                  => row.Impact_score = 3

C10_Witness ==
    /\ Len(clipping_results) = 2
    /\ clipping_results[1].Impact_score = 3
    /\ TitleBit(clipping_results[1]) = 1
    /\ DescriptionBit(clipping_results[1]) = 1
    /\ clipping_results[2].Impact_score = 1
    /\ TitleBit(clipping_results[2]) = 1

\* C11: once a search has stored its results, the store holds, in fetch
\* order, exactly the fetched clippings whose title or whose description is
\* matched by at least one keyword; with no keyword it is empty.
MatchesTitleOrDescription(clip) ==
    \E k \in 1..Len(impact_keywords) :
        \/ re_search(impact_keywords[k], extract_text_from_field(clip.title))
        \/ re_search(impact_keywords[k], extract_description(clip.descriptions))

C11_ResultMembership ==
    pc # "score" =>
        /\ [k \in 1..Len(clipping_results) |-> clipping_results[k].UUID]
             = [k \in 1..Len(SelectSeq(clippings, MatchesTitleOrDescription)) |->
                   SelectSeq(clippings, MatchesTitleOrDescription)[k].uuid]
        /\ impact_keywords = <<>> => clipping_results = <<>>

RowsOf(data) == {data[k] : k \in 1..Len(data)}

\* C12: while a search is fetching or scoring, the store still holds the set
\* it held when the search started; the store changes only in the one step
\* that ends the scoring loop, which assigns the complete export_data; and a
\* displayed list is only ever drawn from a store outside a search.
C12_AtomicReplacement ==
    [][/\ pc' \in {"request", "score"} =>
            /\ clipping_results' = previous_results'
            /\ filtered_data' = <<>>
       /\ clipping_results' # clipping_results =>
            /\ pc = "score" /\ pc' = "display"
       /\ (pc = "score" /\ pc' = "display") =>
            /\ clip_i > Len(clippings)
            /\ clipping_results' = export_data
            /\ export_data' = export_data
       /\ RowsOf(filtered_data') \subseteq RowsOf(clipping_results')]_vars

C12_Witness ==
    /\ pc = "score"
    /\ clip_i > 1
    /\ export_data # <<>>
    /\ clipping_results # <<>>
    /\ clipping_results # export_data
    /\ clipping_results = previous_results

\* C13: a search that is aborted by status 401 or by another fatal status
\* leaves the store as it was when the search started, so the store keeps the
\* result set of the most recent successful search.
C13_AbortedSearchKeepsStore ==
    (pc = "display" /\ stop \in {"unauthorized", "api_error"}) =>
        clipping_results = previous_results

\* the three predicates of the filter, each applied on its own
OnlyProjects(data, on) == Filter(data, on, FALSE, <<>>)
OnlyPublications(data, on) == Filter(data, FALSE, on, <<>>)
OnlyKeyword(data, kf) == Filter(data, FALSE, FALSE, kf)

Satisfies(item, p, q, kf) ==
    /\ p => item.Projects # <<>>
    /\ q => item.Publications # <<>>
    /\ kf # <<>> => IsSubstring(kf, LowerStr(item.Keywords_found))

\* C14: for the result set a search has just stored and every setting of
\* the three predicates,
\* applying the predicates one after another in each of the six orders, or
\* applying any of them twice, gives the list that applying them all at once
\* gives; that list is the subsequence of the store, in stored order, of the
\* records that satisfy every active predicate.
C14_FilterComposition ==
    pc = "display" =>
        \A p \in BOOLEAN, q \in BOOLEAN, raw \in KeywordInputs :
            LET kf == KeywordFilter(raw)
                d == clipping_results
                all == Filter(d, p, q, kf)
            IN  /\ OnlyKeyword(OnlyPublications(OnlyProjects(d, p), q), kf) = all
                /\ OnlyPublications(OnlyKeyword(OnlyProjects(d, p), kf), q) = all
                /\ OnlyKeyword(OnlyProjects(OnlyPublications(d, q), p), kf) = all
                /\ OnlyProjects(OnlyKeyword(OnlyPublications(d, q), kf), p) = all
                /\ OnlyPublications(OnlyProjects(OnlyKeyword(d, kf), p), q) = all
                /\ OnlyProjects(OnlyPublications(OnlyKeyword(d, kf), q), p) = all
                /\ OnlyProjects(OnlyProjects(d, p), p) = OnlyProjects(d, p)
                /\ OnlyPublications(OnlyPublications(d, q), q) = OnlyPublications(d, q)
                /\ OnlyKeyword(OnlyKeyword(d, kf), kf) = OnlyKeyword(d, kf)
                /\ Filter(all, p, q, kf) = all
                /\ all = SelectSeq(d, LAMBDA item : Satisfies(item, p, q, kf))

\* a search has just stored two or more records that the predicates tell
\* apart: the projects checkbox and the keyword "b" do not keep the same
\* records, and together they keep a proper, non-empty part of the store
C14_Witness ==
    /\ pc = "display"
    /\ Len(clipping_results) >= 2
    /\ OnlyProjects(clipping_results, TRUE) # OnlyKeyword(clipping_results, <<"b">>)
    /\ Filter(clipping_results, TRUE, FALSE, <<"b">>) # clipping_results
    /\ Filter(clipping_results, TRUE, FALSE, <<"b">>) # <<>>
    /\ \E k \in 1..Len(clipping_results) :
          /\ clipping_results[k].Projects # <<>>
          /\ clipping_results[k].Publications = <<>>

\* C15: every step that derives the filtered and sorted list leaves the store
\* as it was, record for record and in the same order; the store changes only
\* in the step that ends the scoring loop of a search.
C15_ViewLeavesStore ==
    [][/\ filtered_data' # filtered_data => clipping_results' = clipping_results
       /\ pc \in {"display", "idle"} /\ pc' = "idle" =>
              clipping_results' = clipping_results
       /\ clipping_results' # clipping_results => pc = "score"]_vars

\* a rerun has displayed all the stored records in another order than the
\* stored one
C15_Witness ==
    /\ pc = "idle"
    /\ last_run = "rerun"
    /\ Len(clipping_results) >= 2
    /\ Len(filtered_data) = Len(clipping_results)
    /\ filtered_data # clipping_results

\* C16: whatever the provider answers, a search never ends by an exception
\* that leaves get_clippings unhandled.
C16_NoUnhandledFailure == stop # "unhandled"

StopConditions ==
    {"cutoff", "empty", "unauthorized", "api_error", "exhausted", "network"}

\* requests the fetch can still issue: attempts left for the page at offset
\* and all attempts of every later page up to the first one past the
\* provider's collection
RequestsLeft ==
    (MaxPages + 1 - offset \div size) * max_retries - attempt

\* C17: with a provider whose collection ends after MaxPages pages and that
\* answers with server errors and well-formed pages in any interleaving, a
\* fetch in progress can always take a step, has a positive number of
\* requests left, and each step either lowers that number and stays in the
\* fetch, or returns from get_clippings by one of the defined stop
\* conditions (a malformed body is the failure of C16 and not a return). So
\* every search returns after at most (MaxPages + 1) * max_retries requests.
C17_FetchTerminates ==
    /\ [](pc = "request" =>
            /\ RequestsLeft >= 1
            /\ attempt < max_retries
            /\ offset <= MaxPages * size
            /\ ENABLED (NetworkError \/ ServerError \/ ErrorStatus \/ Page))
    /\ [][pc = "request" =>
            \/ /\ pc' = "request"
               /\ stop' = "none"
               /\ RequestsLeft' < RequestsLeft
            \/ /\ pc' = "score"
               /\ stop' \in StopConditions
            \/ stop' = "unhandled"]_vars

\* a search has returned after a server error and a full page in range
C17_Witness ==
    /\ pc = "score"
    /\ stop \in StopConditions
    /\ offset >= size
    /\ ~all_ok
    /\ clippings # <<>>

\* C18: the first request of a search has offset 0 and a fresh retry counter;
\* between two requests of a search either the offset stays, the answer was
\* status 500, nothing was collected and the retry counter went up by one, or
\* the offset grows by exactly 100, the answer was a non-empty 200 page with
\* every item in range, all of them collected, and the retry counter is 0.
C18_PageOrder ==
    [][/\ (pc = "idle" /\ pc' = "request") =>
            /\ offset' = 0
            /\ attempt' = 0
            /\ results' = <<>>
       /\ (pc = "request" /\ pc' = "request") =>
            \/ /\ offset' = offset
               /\ response' = Http(500)
               /\ attempt' = attempt + 1
               /\ results' = results
            \/ /\ offset' = offset + 100
               /\ attempt' = 0
               /\ response'.kind = "http"
               /\ response'.status = 200
               /\ response'.has_items
               /\ response'.items # <<>>
               /\ \A k \in 1..Len(response'.items) :
                      response'.items[k].createdDate >= start_date
               /\ results' = results \o response'.items]_vars

\* the third page is being retried after two full pages were collected
C18_Witness ==
    /\ pc = "request"
    /\ offset = 2 * size
    /\ attempt >= 1
    /\ Len(results) >= 2

\* C19: the keywords found of every stored record are the matching phrases
\* of the keyword list, in list order, and no phrase is listed twice.
C19_NoDuplicateMatches ==
    pc # "score" =>
        \A r \in 1..Len(clipping_results) :
            LET row == clipping_results[r]
                found == match_impact_keywords(
                             TitleAndDescription(row.Title, row.Description),
                             impact_keywords)
            IN  /\ row.Keywords_found = Join(found, <<",", " ">>)
                /\ \A i \in 1..Len(found), j \in 1..Len(found) :
                       i # j => found[i] # found[j]

\* C20: a run started by the Search button with an empty API key issues no
\* request, starts no search and leaves the store as it was; the list it
\* displays is a filtered and sorted view of that same store.
C20_SearchWithoutKey ==
    [][(pc = "idle" /\ last_run' = "no_key") =>
            /\ pc' = "idle"
            /\ clipping_results' = clipping_results
            /\ response' = response
            /\ page_requests' = page_requests
            /\ served' = served
            /\ stop' = stop
            /\ filtered_data' \in
                   IF clipping_results = <<>> THEN {<<>>}
                   ELSE {Sorted(data, sort_by) :
                            data \in FilteredLists(clipping_results),
                            sort_by \in SortModes}]_vars

\* after Search without a key the stored records are all displayed
C20_Witness ==
    /\ last_run = "no_key"
    /\ pc = "idle"
    /\ clipping_results # <<>>
    /\ Len(filtered_data) = Len(clipping_results)

====
